---- MODULE Spec2Model ----
(***************************************************************************)
(* Model of scripts/extract_gamedata.py: the orchestration of the two      *)
(* acquisition modes (scunpacked-data clone/update, direct p4k extraction  *)
(* with scdatatools), the external commands they spawn, and the            *)
(* verification of the cloned data set.                                    *)
(*                                                                         *)
(* One run of main() is one behaviour.  The command line, the filesystem   *)
(* before the run and the outcome of every spawned process are chosen      *)
(* nondeterministically.                                                   *)
(***************************************************************************)
EXTENDS Integers, Sequences, FiniteSets, TLC

VARIABLES
    from_p4k,     \* args.from_p4k
    localization_only, \* the command line carries --localization-only
    update,       \* args.update
    p4k_exists,   \* Path(args.p4k).exists()
    fs,           \* the filesystem below the output directory
    dest_existed, \* scunpacked-data existed when the run started (history)
    pc,           \* position of main()
    cmds,         \* external processes spawned so far, with their outcome
    logged,       \* messages written by log()
    df_success,   \* main: df_success
    loc_success,  \* main: loc_success
    results,      \* main: results (the verification report)
    exit_status   \* argument of sys.exit, NotExited while running

vars == <<from_p4k, localization_only, update, p4k_exists, fs, dest_existed, pc, cmds, logged,
          df_success, loc_success, results, exit_status>>

-----------------------------------------------------------------------------
(* Bounds of the model *)

\* return codes of a spawned process range over 0..MaxReturnCode
MaxReturnCode == 2
\* file sizes range over MiB - Spread .. MiB + Spread (and two small sizes)
Spread == 1

-----------------------------------------------------------------------------
(* Values *)

MiB == 1024 * 1024
KiB == 1024

NotFound == -1      \* subprocess.run raised FileNotFoundError
Absent == -1        \* the file does not exist
NotExited == -1

\* outcome of one subprocess.run: a return code, or the executable is missing
Outcomes == (0 .. MaxReturnCode) \cup {NotFound}

ExpectedFiles ==
    << "items.json", "labels.json", "ships.json",
       "fps-items.json", "ship-items.json", "manufacturers.json" >>

ExpectedFileSet == { ExpectedFiles[i] : i \in 1 .. Len(ExpectedFiles) }

SizeChoices ==
    << 0, 256 >> \o [ i \in 1 .. (2 * Spread + 1) |-> MiB - Spread - 1 + i ]

\* contents of a scunpacked-data directory: which of the expected files it
\* holds and how large each is
RepoContents ==
    { [ f \in ExpectedFileSet |->
          LET i == CHOOSE j \in 1 .. Len(ExpectedFiles) : ExpectedFiles[j] = f
          IN  IF i \in present
              THEN SizeChoices[((shift + i) % Len(SizeChoices)) + 1]
              ELSE Absent ]
      : present \in SUBSET (1 .. Len(ExpectedFiles)),
        shift \in 0 .. (Len(SizeChoices) - 1) }

NoFiles == [ f \in ExpectedFileSet |-> Absent ]

\* the commands handed to subprocess.run
GitProbe == "git --version"
ScdtProbe == "scdt --help"
CloneCmd == "git clone --depth 1"
PullCmd == "git pull --ff-only"
ForgeCmd == "scdt forge extract"
LocalizationCmd == "scdt localization export"

Cmd(name, outcome) == [ cmd |-> name, outcome |-> outcome ]
Msg(tag, arg) == [ tag |-> tag, arg |-> arg ]

-----------------------------------------------------------------------------
(* Pure functions *)

\* the decimal rounding of Python's ".1f" on the exactly representable n / d
RoundHalfEven(n, d) ==
    LET q == n \div d
        r == n % d
    IN  IF 2 * r < d THEN q
        ELSE IF 2 * r > d THEN q + 1
        ELSE IF q % 2 = 0 THEN q ELSE q + 1

size_human(size) ==
    IF size > MiB
    THEN [ tenths |-> RoundHalfEven(size * 10, MiB), unit |-> "MB" ]
    ELSE [ tenths |-> RoundHalfEven(size * 10, KiB), unit |-> "KB" ]

\* filepath.exists() for a file of the scunpacked-data directory
FileExists(f_s, filename) == f_s.scunpacked_dir /\ f_s.files[filename] # Absent

\* variant: the existence of the directory is tested, not that of the file
verify_entry_ChecksDirectory(f_s, filename) ==
    IF f_s.scunpacked_dir
    THEN [ exists |-> TRUE,
           size |-> f_s.files[filename],
           size_human |-> size_human(f_s.files[filename]) ]
    ELSE [ exists |-> FALSE ]

verify_entry(f_s, filename) ==
    IF FileExists(f_s, filename)
    THEN [ exists |-> TRUE,
           size |-> f_s.files[filename],
           size_human |-> size_human(f_s.files[filename]) ]
    ELSE [ exists |-> FALSE ]

verify_scunpacked_data(f_s) ==
    [ filename \in ExpectedFileSet |-> verify_entry(f_s, filename) ]

\* variant: only the FileNotFoundError is taken as "git is missing"
check_git_IgnoresReturnCode(outcome) == outcome # NotFound

\* returncode == 0, False on FileNotFoundError
check_git(outcome) == outcome = 0
check_scdatatools(outcome) == outcome = 0

\* variant: the return code is not looked at, only an exception fails
git_ok_IgnoresReturnCode(outcome) == outcome # NotFound

\* return value of clone_scunpacked_data: returncode == 0, False on an exception
git_ok(outcome) == outcome = 0

\* return value of extract_dataforge: returncode == 0, False on an exception
dataforge_ok(outcome) == outcome = 0

\* return value of extract_localization: returncode == 0, False on an exception
localization_ok(outcome) == outcome = 0

\* variant: the existence check is dropped, every run syncs
needs_sync_Always(f_s, upd) == TRUE

\* variant: --update is ignored, an existing directory is never updated
needs_sync_IgnoresUpdate(f_s, upd) == ~f_s.scunpacked_dir

\* main runs clone_scunpacked_data unless the directory exists and --update
\* was not given
needs_sync(f_s, upd) == ~(f_s.scunpacked_dir /\ ~upd)

\* variant: a failed record extraction is tried a second time
after_dataforge_RetriesOnce(ok) ==
    IF ok \/ (\E i \in 1 .. Len(cmds) : cmds[i].cmd = ForgeCmd)
    THEN "extract_localization"
    ELSE "extract_dataforge"

\* variant: a failed record extraction ends the extraction
after_dataforge_AbortsOnFailure(ok) ==
    IF ok THEN "extract_localization" ELSE "p4k_exit"

\* main calls extract_localization after extract_dataforge, whatever it returned
after_dataforge(ok) == "extract_localization"

\* the log lines of the extraction summary, in the order of expected_files
RECURSIVE summary_lines(_, _)
summary_lines(res, i) ==
    IF i > Len(ExpectedFiles) THEN << >>
    ELSE << IF res[ExpectedFiles[i]].exists
            THEN Msg("size", ExpectedFiles[i])
            ELSE Msg("MISSING", ExpectedFiles[i]) >>
         \o summary_lines(res, i + 1)

\* variant: one present file is enough
all_exist_Any(res) == \E i \in 1 .. Len(ExpectedFiles) : res[ExpectedFiles[i]].exists

all_exist(res) == \A i \in 1 .. Len(ExpectedFiles) : res[ExpectedFiles[i]].exists

-----------------------------------------------------------------------------
(* Initial states *)

InitFs ==
    { [ output_dir |-> FALSE, scunpacked_dir |-> FALSE, files |-> NoFiles,
        dataforge_dir |-> FALSE, forge_json |-> FALSE, localization_csv |-> FALSE ] }
    \cup
    { [ output_dir |-> TRUE, scunpacked_dir |-> sd, files |-> fl,
        dataforge_dir |-> dd, forge_json |-> dd /\ fj, localization_csv |-> lc ]
      : sd \in BOOLEAN, fl \in RepoContents, dd \in BOOLEAN, fj \in BOOLEAN,
        lc \in BOOLEAN }

Init ==
    /\ from_p4k \in BOOLEAN
    /\ localization_only \in BOOLEAN
    /\ update \in BOOLEAN
    /\ p4k_exists \in BOOLEAN
    /\ fs \in { f \in InitFs : ~f.scunpacked_dir => f.files = NoFiles }
    /\ dest_existed = fs.scunpacked_dir
    /\ pc = "main"
    /\ cmds = << >>
    /\ logged = << >>
    /\ df_success = FALSE
    /\ loc_success = FALSE
    /\ results = << >>
    /\ exit_status = NotExited

-----------------------------------------------------------------------------
(* sys.exit *)

Exit(code) ==
    /\ pc' = "done"
    /\ exit_status' = code

-----------------------------------------------------------------------------
(* Effects of the external tools on the filesystem *)

\* git clone --depth 1: a successful clone creates the directory with the
\* upstream contents, a failed one leaves nothing behind
CloneEffect(f_s, outcome) ==
    IF outcome = 0
    THEN { [ f_s EXCEPT !.scunpacked_dir = TRUE, !.files = fl ] : fl \in RepoContents }
    ELSE { f_s }

\* git pull --ff-only: a successful pull brings the upstream contents, a
\* refused one leaves the checkout as it was
PullEffect(f_s, outcome) ==
    IF outcome = 0
    THEN { [ f_s EXCEPT !.files = fl ] : fl \in RepoContents }
    ELSE { f_s }

\* scdt forge extract: a tool that ran may have written JSON records
ForgeEffect(f_s, outcome) ==
    IF outcome = NotFound
    THEN { f_s }
    ELSE { [ f_s EXCEPT !.forge_json = fj ] : fj \in {f_s.forge_json, TRUE} }

\* scdt localization export: a tool that ran may have written the CSV
LocalizationEffect(f_s, outcome) ==
    IF outcome = NotFound
    THEN { f_s }
    ELSE { [ f_s EXCEPT !.localization_csv = lc ] : lc \in {f_s.localization_csv, TRUE} }

-----------------------------------------------------------------------------
(* main, the command line *)

\* lines 237-261: the parser defines --from-p4k, --p4k, --output and --update
\* only; parse_args() ends the run with status 2 on any other option
ParseArgsError ==
    /\ pc = "main"
    /\ localization_only
    /\ logged' = logged \o << Msg("error: unrecognized arguments", "--localization-only") >>
    /\ Exit(2)
    /\ UNCHANGED <<from_p4k, localization_only, update, p4k_exists, fs,
                   dest_existed, cmds, df_success, loc_success, results>>

-----------------------------------------------------------------------------
(* main, direct p4k extraction mode *)

\* variant: the probe of scdatatools comes before the existence check
P4kPathCheck_ProbeFirst ==
    /\ pc = "main"
    /\ ~localization_only
    /\ from_p4k
    /\ \E outcome \in Outcomes :
         /\ cmds' = Append(cmds, Cmd(ScdtProbe, outcome))
         /\ IF ~check_scdatatools(outcome) \/ ~p4k_exists
            THEN /\ logged' = logged \o << Msg("Error", "") >>
                 /\ Exit(1)
            ELSE /\ pc' = "check_scdatatools"
                 /\ UNCHANGED <<logged, exit_status>>
    /\ UNCHANGED <<from_p4k, localization_only, update, p4k_exists, fs, dest_existed,
                   df_success, loc_success, results>>

\* lines 264-273: the existence check of Data.p4k
P4kPathCheck ==
    /\ pc = "main"
    /\ ~localization_only
    /\ from_p4k
    /\ IF ~p4k_exists
       THEN /\ logged' = logged \o << Msg("Error: Data.p4k not found", "") >>
            /\ Exit(1)
       ELSE /\ pc' = "check_scdatatools"
            /\ UNCHANGED <<logged, exit_status>>
    /\ UNCHANGED <<from_p4k, localization_only, update, p4k_exists, fs, dest_existed, cmds,
                   df_success, loc_success, results>>

\* variant: output_dir.mkdir comes before the probe of scdatatools
CheckScdatatools_MkdirFirst ==
    /\ pc = "check_scdatatools"
    /\ fs' = [ fs EXCEPT !.output_dir = TRUE ]
    /\ \E outcome \in Outcomes :
         /\ cmds' = Append(cmds, Cmd(ScdtProbe, outcome))
         /\ IF ~check_scdatatools(outcome)
            THEN /\ logged' = logged \o << Msg("Error: scdatatools not found.", "") >>
                 /\ Exit(1)
            ELSE /\ logged' = logged \o << Msg("Using Data.p4k", "") >>
                 /\ pc' = "extract_dataforge"
                 /\ UNCHANGED exit_status
    /\ UNCHANGED <<from_p4k, localization_only, update, p4k_exists, dest_existed,
                   df_success, loc_success, results>>

\* lines 275-284: the probe of scdatatools, then output_dir.mkdir
CheckScdatatools ==
    /\ pc = "check_scdatatools"
    /\ \E outcome \in Outcomes :
         /\ cmds' = Append(cmds, Cmd(ScdtProbe, outcome))
         /\ IF ~check_scdatatools(outcome)
            THEN /\ logged' = logged \o << Msg("Error: scdatatools not found.", "") >>
                 /\ Exit(1)
                 /\ fs' = fs
            ELSE /\ logged' = logged \o << Msg("Using Data.p4k", "") >>
                 /\ fs' = [ fs EXCEPT !.output_dir = TRUE ]
                 /\ pc' = "extract_dataforge"
                 /\ UNCHANGED exit_status
    /\ UNCHANGED <<from_p4k, localization_only, update, p4k_exists, dest_existed,
                   df_success, loc_success, results>>

\* line 286 and lines 113-147: extract_dataforge
ExtractDataforge ==
    /\ pc = "extract_dataforge"
    /\ \E outcome \in Outcomes :
         LET made == [ fs EXCEPT !.output_dir = TRUE, !.dataforge_dir = TRUE ]
         IN  /\ cmds' = Append(cmds, Cmd(ForgeCmd, outcome))
             /\ fs' \in ForgeEffect(made, outcome)
             /\ df_success' = dataforge_ok(outcome)
             /\ logged' = logged \o
                   ( IF outcome = NotFound
                     THEN << Msg("Error extracting DataForge", "") >>
                     ELSE IF outcome # 0
                     THEN << Msg("Warning: DataForge extraction returned code", "") >>
                     ELSE << >> )
    /\ pc' = after_dataforge(df_success')
    /\ UNCHANGED <<from_p4k, localization_only, update, p4k_exists, dest_existed,
                   loc_success, results, exit_status>>

\* line 287 and lines 150-179: extract_localization
ExtractLocalization ==
    /\ pc = "extract_localization"
    /\ \E outcome \in Outcomes :
         LET made == [ fs EXCEPT !.output_dir = TRUE ]
         IN  /\ cmds' = Append(cmds, Cmd(LocalizationCmd, outcome))
             /\ fs' \in LocalizationEffect(made, outcome)
             /\ loc_success' = localization_ok(outcome)
             /\ logged' = logged \o
                   ( IF outcome = NotFound
                     THEN << Msg("Error extracting localization", "") >>
                     ELSE IF outcome # 0
                     THEN << Msg("Warning: Localization extraction returned code", "") >>
                     ELSE << >> )
    /\ pc' = "p4k_exit"
    /\ UNCHANGED <<from_p4k, localization_only, update, p4k_exists, dest_existed,
                   df_success, results, exit_status>>

\* variant: a failed direct extraction falls back to the scunpacked-data clone
P4kExit_FallsBackToClone ==
    /\ pc = "p4k_exit"
    /\ IF df_success /\ loc_success
       THEN /\ logged' = logged \o << Msg("Extraction completed successfully!", "") >>
            /\ Exit(0)
       ELSE /\ logged' = logged \o << Msg("Extraction failed.", "") >>
            /\ pc' = "sync"
            /\ UNCHANGED exit_status
    /\ UNCHANGED <<from_p4k, localization_only, update, p4k_exists, fs, dest_existed, cmds,
                   df_success, loc_success, results>>

\* variant: one successful step is enough for exit status 0
P4kExit_EitherStep ==
    /\ pc = "p4k_exit"
    /\ IF df_success \/ loc_success
       THEN /\ logged' = logged \o << Msg("Extraction completed successfully!", "") >>
            /\ Exit(0)
       ELSE /\ logged' = logged \o << Msg("Extraction failed.", "") >>
            /\ Exit(1)
    /\ UNCHANGED <<from_p4k, localization_only, update, p4k_exists, fs, dest_existed, cmds,
                   df_success, loc_success, results>>

\* lines 289-295: the exit status of the direct extraction
P4kExit ==
    /\ pc = "p4k_exit"
    /\ IF df_success /\ loc_success
       THEN /\ logged' = logged \o << Msg("Extraction completed successfully!", "") >>
            /\ Exit(0)
       ELSE /\ logged' = logged \o << Msg("Extraction failed.", "") >>
            /\ Exit(1)
    /\ UNCHANGED <<from_p4k, localization_only, update, p4k_exists, fs, dest_existed, cmds,
                   df_success, loc_success, results>>

-----------------------------------------------------------------------------
(* main, scunpacked-data mode *)

\* lines 297-304: the probe of git
CheckGit ==
    /\ pc = "main"
    /\ ~localization_only
    /\ ~from_p4k
    /\ \E outcome \in Outcomes :
         /\ cmds' = Append(cmds, Cmd(GitProbe, outcome))
         /\ IF ~check_git(outcome)
            THEN /\ logged' = logged \o << Msg("Error: git not found.", "") >>
                 /\ Exit(1)
            ELSE /\ pc' = "sync"
                 /\ UNCHANGED <<logged, exit_status>>
    /\ UNCHANGED <<from_p4k, localization_only, update, p4k_exists, fs, dest_existed,
                   df_success, loc_success, results>>

\* lines 308-310: the directory is there and --update was not given
AlreadyExists ==
    /\ pc = "sync"
    /\ ~needs_sync(fs, update)
    /\ logged' = logged \o << Msg("scunpacked-data already exists", "") >>
    /\ pc' = "verify"
    /\ UNCHANGED <<from_p4k, localization_only, update, p4k_exists, fs, dest_existed, cmds,
                   df_success, loc_success, results, exit_status>>

\* variant: subprocess.run is called with check=True, a nonzero code raises
\* and is reported by the except branch
git_failure_msg_CheckTrue(outcome) == Msg("Error with git", "")

\* the line clone_scunpacked_data logs when the command did not succeed:
\* "Git command failed" for a nonzero code (lines 104-106), "Error with git"
\* for an exception of subprocess.run (lines 108-110)
git_failure_msg(outcome) ==
    IF outcome = NotFound
    THEN Msg("Error with git", "")
    ELSE Msg("Git command failed", "")

\* variant: the existence of the output directory decides, not that of the clone
git_cmd_ChecksOutputDir(f_s) ==
    IF f_s.output_dir THEN PullCmd ELSE CloneCmd

\* the git command clone_scunpacked_data builds (lines 84-93)
git_cmd(f_s) ==
    IF f_s.scunpacked_dir THEN PullCmd ELSE CloneCmd

\* lines 311-314 and lines 75-110: clone_scunpacked_data and its failure exit
CloneScunpackedData ==
    /\ pc = "sync"
    /\ needs_sync(fs, update)
    /\ \E outcome \in Outcomes :
         LET cmd == git_cmd(fs)
             made == IF fs.scunpacked_dir THEN fs
                     ELSE [ fs EXCEPT !.output_dir = TRUE ]
         IN  /\ cmds' = Append(cmds, Cmd(cmd, outcome))
             /\ fs' \in ( IF fs.scunpacked_dir
                          THEN PullEffect(made, outcome)
                          ELSE CloneEffect(made, outcome) )
             /\ IF git_ok(outcome)
                THEN /\ logged' = logged \o << Msg("Running", cmd) >>
                     /\ pc' = "verify"
                     /\ UNCHANGED exit_status
                ELSE /\ logged' = logged \o
                          << Msg("Running", cmd),
                             git_failure_msg(outcome),
                             Msg("Failed to clone/update scunpacked-data", "") >>
                     /\ Exit(1)
    /\ UNCHANGED <<from_p4k, localization_only, update, p4k_exists, dest_existed,
                   df_success, loc_success, results>>

\* variant: the files are opened for writing while they are inspected, which
\* truncates them
Verify_OpensForWriting ==
    /\ pc = "verify"
    /\ results' = verify_scunpacked_data(fs)
    /\ fs' = [ fs EXCEPT !.files =
                 [ f \in ExpectedFileSet |->
                     IF FileExists(fs, f) THEN 0 ELSE fs.files[f] ] ]
    /\ pc' = "summary"
    /\ UNCHANGED <<from_p4k, localization_only, update, p4k_exists, dest_existed, cmds, logged,
                   df_success, loc_success, exit_status>>

\* lines 316-318: results = verify_scunpacked_data(output_dir)
Verify ==
    /\ pc = "verify"
    /\ results' = verify_scunpacked_data(fs)
    /\ pc' = "summary"
    /\ UNCHANGED <<from_p4k, localization_only, update, p4k_exists, fs, dest_existed, cmds, logged,
                   df_success, loc_success, exit_status>>

\* lines 320-334: the summary and the exit status
Summary ==
    /\ pc = "summary"
    /\ IF all_exist(results)
       THEN /\ logged' = logged \o summary_lines(results, 1)
                           \o << Msg("Extraction completed successfully!", "") >>
            /\ Exit(0)
       ELSE /\ logged' = logged \o summary_lines(results, 1)
                           \o << Msg("Some files are missing.", "") >>
            /\ Exit(1)
    /\ UNCHANGED <<from_p4k, localization_only, update, p4k_exists, fs, dest_existed, cmds,
                   df_success, loc_success, results>>

-----------------------------------------------------------------------------

Next ==
    \/ ParseArgsError
    \/ P4kPathCheck
    \/ CheckScdatatools
    \/ ExtractDataforge
    \/ ExtractLocalization
    \/ P4kExit
    \/ CheckGit
    \/ AlreadyExists
    \/ CloneScunpackedData
    \/ Verify
    \/ Summary

Spec == Init /\ [][Next]_vars

TypeOK ==
    /\ from_p4k \in BOOLEAN /\ update \in BOOLEAN /\ p4k_exists \in BOOLEAN
    /\ pc \in { "main", "check_scdatatools", "extract_dataforge",
                "extract_localization", "p4k_exit", "sync", "verify",
                "summary", "done" }
    /\ exit_status \in {NotExited, 0, 1, 2}
    /\ (pc = "done") <=> (exit_status # NotExited)

-----------------------------------------------------------------------------
(* verify_scunpacked_data called on its own, on any output directory *)

InitVerify ==
    /\ from_p4k = FALSE
    /\ localization_only = FALSE
    /\ update \in BOOLEAN
    /\ p4k_exists \in BOOLEAN
    /\ fs \in { f \in InitFs : ~f.scunpacked_dir => f.files = NoFiles }
    /\ dest_existed = fs.scunpacked_dir
    /\ pc = "verify"
    /\ cmds = << >>
    /\ logged = << >>
    /\ df_success = FALSE
    /\ loc_success = FALSE
    /\ results = << >>
    /\ exit_status = NotExited

\* verify_scunpacked_data called a second time on the same directory
Reverify ==
    /\ pc = "done"
    /\ results' = verify_scunpacked_data(fs)
    /\ pc' = "reverified"
    /\ UNCHANGED <<from_p4k, localization_only, update, p4k_exists, fs, dest_existed, cmds,
                   logged, df_success, loc_success, exit_status>>

NextVerify == Verify \/ Summary \/ Reverify

VerifySpec == InitVerify /\ [][NextVerify]_vars

-----------------------------------------------------------------------------
(* Properties *)

\* the raw-file extraction the localization fallback would spawn
FallbackCmd == "scdt p4k extract"

Issued(name) == { i \in 1 .. Len(cmds) : cmds[i].cmd = name }
Count(name) == Cardinality(Issued(name))

\* the probe of git answered with return code 0
GitAvailable == Len(cmds) >= 1 /\ cmds[1] = Cmd(GitProbe, 0)

\* C1: in a scunpacked-data run that starts without the scunpacked-data
\* directory, no pull is ever issued and never more than one clone, and once
\* git was found available the finished run has issued exactly one clone;
\* --update makes no difference.
C1_CloneOnceWhenAbsent ==
    (~from_p4k /\ ~dest_existed) =>
        /\ Count(PullCmd) = 0
        /\ Count(CloneCmd) <= 1
        /\ (pc = "done" /\ GitAvailable) => Count(CloneCmd) = 1

C1_Witness ==
    /\ pc = "done" /\ ~from_p4k /\ ~dest_existed /\ update
    /\ GitAvailable
    /\ Count(CloneCmd) = 1

\* C2: in a scunpacked-data run that starts with the directory present and
\* without --update, neither a clone nor a pull is ever issued (the probe of
\* git is the only process), and a run that found git reaches verification:
\* it ends with a verification report.
C2_NoNetworkWhenPresent ==
    (~from_p4k /\ dest_existed /\ ~update) =>
        /\ Count(CloneCmd) = 0
        /\ Count(PullCmd) = 0
        /\ Len(cmds) <= 1
        /\ (pc # "main" /\ GitAvailable) => pc \in {"sync", "verify", "summary", "done"}
        /\ (pc = "done" /\ GitAvailable) => results # << >>

C2_Witness ==
    /\ pc = "done" /\ ~from_p4k /\ dest_existed /\ ~update
    /\ GitAvailable
    /\ cmds = << Cmd(GitProbe, 0) >>
    /\ results # << >>

\* C3: in a scunpacked-data run that starts with the directory present and
\* with --update, no clone is ever issued and never more than one pull, and
\* once git was found available the finished run has issued exactly one
\* fast-forward-only pull.
C3_PullOnceWhenUpdate ==
    (~from_p4k /\ dest_existed /\ update) =>
        /\ Count(CloneCmd) = 0
        /\ Count(PullCmd) <= 1
        /\ (pc = "done" /\ GitAvailable) => Count(PullCmd) = 1

C3_Witness ==
    /\ pc = "done" /\ ~from_p4k /\ dest_existed /\ update
    /\ GitAvailable
    /\ Count(PullCmd) = 1 /\ Count(CloneCmd) = 0

\* C4: a clone or pull that returned a nonzero code is the last process of
\* the run, and the run has ended with exit status 1 without verification.
C4_GitFailureIsTerminal ==
    \A i \in Issued(CloneCmd) \cup Issued(PullCmd) :
        cmds[i].outcome \in 1 .. MaxReturnCode =>
            /\ i = Len(cmds)
            /\ pc = "done"
            /\ exit_status = 1
            /\ results = << >>

C4_Witness ==
    /\ pc = "done" /\ exit_status = 1
    /\ Len(cmds) = 2
    /\ cmds[2] = Cmd(PullCmd, 1)

\* C5: a direct extraction run (its command line parses) whose Data.p4k does
\* not exist spawns no process at all, and its only step ends it with exit
\* status 1.
C5_MissingArchiveSpawnsNothing ==
    (from_p4k /\ ~localization_only /\ ~p4k_exists) =>
        /\ cmds = << >>
        /\ pc \in {"main", "done"}
        /\ pc = "done" => exit_status = 1

C5_Witness ==
    /\ from_p4k /\ ~localization_only /\ ~p4k_exists
    /\ pc = "done" /\ exit_status = 1
    /\ cmds = << >>

\* C6: when the probe of the tool of the selected mode does not return 0
\* (nonzero code or executable not found), the probe is the only process of
\* the run and the run has ended with exit status 1.
C6_MissingToolShortCircuits ==
    ( /\ Len(cmds) >= 1
      /\ cmds[1].cmd \in {GitProbe, ScdtProbe}
      /\ cmds[1].outcome # 0 ) =>
        /\ Len(cmds) = 1
        /\ pc = "done"
        /\ exit_status = 1
        /\ Count(CloneCmd) + Count(PullCmd) + Count(ForgeCmd)
             + Count(LocalizationCmd) = 0

C6_Witness ==
    /\ pc = "done" /\ exit_status = 1
    /\ cmds = << Cmd(GitProbe, 1) >>

\* C7: whatever the filesystem, the verification report has exactly one
\* entry for each of the six expected files, and the entry says "exists"
\* exactly when the file exists in the scunpacked-data directory.
C7_ReportMatchesFilesystem ==
    pc \in {"summary", "done"} =>
        /\ DOMAIN results = ExpectedFileSet
        /\ Cardinality(DOMAIN results) = 6
        /\ \A f \in ExpectedFileSet :
             results[f].exists <=> (fs.scunpacked_dir /\ fs.files[f] # Absent)

C7_Witness ==
    /\ pc = "summary"
    /\ fs.scunpacked_dir
    /\ \A f \in ExpectedFileSet : (fs.files[f] = Absent) <=> (f = "ships.json")
    /\ \A f \in ExpectedFileSet : results[f].exists <=> (f # "ships.json")

\* the acquisition step of a scunpacked-data run did not fail: git was
\* found, and either nothing was run or the clone / pull returned 0
AcquisitionDidNotFail ==
    /\ ~from_p4k
    /\ GitAvailable
    /\ Len(cmds) = 2 => cmds[2].outcome = 0

\* C8: a finished scunpacked-data run whose acquisition step did not fail
\* has exit status 0 if all six expected files exist, and 1 if not.
C8_ExitStatusIsAllPresent ==
    (pc = "done" /\ AcquisitionDidNotFail) =>
        /\ exit_status \in {0, 1}
        /\ exit_status = 0 <=> \A f \in ExpectedFileSet : FileExists(fs, f)

C8_Witness ==
    /\ pc = "done" /\ AcquisitionDidNotFail
    /\ cmds[Len(cmds)] = Cmd(CloneCmd, 0)
    /\ fs.files["ships.json"] = Absent
    /\ exit_status = 1

\* C9: in a direct extraction run, once extract_dataforge has returned, the
\* localization export is the next process spawned, whether the record
\* extraction returned 0, returned a nonzero code or could not be started.
C9_LocalizationAlwaysAttempted ==
    \A i \in Issued(ForgeCmd) :
        pc # "extract_localization" =>
            /\ Len(cmds) > i
            /\ cmds[i + 1].cmd = LocalizationCmd

C9_Witness ==
    /\ pc = "done"
    /\ Len(cmds) = 3
    /\ cmds[2] = Cmd(ForgeCmd, NotFound)
    /\ cmds[3].cmd = LocalizationCmd

\* C10: in a direct extraction run, a localization export that failed is
\* followed by the fallback raw-file extraction before the run ends.
C10_FallbackAttempted ==
    pc = "done" =>
        \A i \in Issued(LocalizationCmd) :
            cmds[i].outcome # 0 =>
                \E j \in Issued(FallbackCmd) : j > i

\* the preconditions of a direct extraction run passed: Data.p4k exists and
\* the probe of scdatatools returned 0
P4kPreconditionsPassed ==
    /\ from_p4k
    /\ Len(cmds) >= 1
    /\ cmds[1] = Cmd(ScdtProbe, 0)

\* C11: a finished direct extraction run that passed its preconditions has
\* run both steps, and its exit status is 0 exactly when both the record
\* extraction and the localization export returned 0, and 1 otherwise.
C11_ExitStatusIsBothSteps ==
    (pc = "done" /\ P4kPreconditionsPassed) =>
        /\ Len(cmds) = 3
        /\ cmds[2].cmd = ForgeCmd
        /\ cmds[3].cmd = LocalizationCmd
        /\ exit_status \in {0, 1}
        /\ exit_status = 0 <=> (cmds[2].outcome = 0 /\ cmds[3].outcome = 0)

C11_Witness ==
    /\ pc = "done" /\ P4kPreconditionsPassed
    /\ cmds[2] = Cmd(ForgeCmd, 1)
    /\ cmds[3] = Cmd(LocalizationCmd, 0)
    /\ exit_status = 1

\* no probe has answered "tool missing"
NoProbeFailed ==
    \A i \in Issued(GitProbe) \cup Issued(ScdtProbe) : cmds[i].outcome = 0

\* C12: a direct extraction run asked for with --localization-only never
\* spawns the record extraction; when Data.p4k exists and no probe failed it
\* ends with status 0 or 1 after attempting the localization export, and
\* with status 0 when the export failed and the fallback returned 0.
C12_LocalizationOnlyRun ==
    (from_p4k /\ localization_only) =>
        /\ Count(ForgeCmd) = 0
        /\ (pc = "done" /\ p4k_exists /\ NoProbeFailed) =>
              /\ exit_status \in {0, 1}
              /\ Count(LocalizationCmd) = 1
              /\ \A i \in Issued(LocalizationCmd), j \in Issued(FallbackCmd) :
                    (cmds[i].outcome # 0 /\ cmds[j].outcome = 0) => exit_status = 0

\* C13: a direct extraction run never ends with exit status 0 while the
\* JSON records below dataforge or localization.csv are missing.
C13_ExitZeroImpliesOutputs ==
    (pc = "done" /\ from_p4k /\ exit_status = 0) =>
        /\ fs.dataforge_dir /\ fs.forge_json
        /\ fs.localization_csv

Logged(tag) == \E k \in 1 .. Len(logged) : logged[k].tag = tag

\* the line logged when the executable of the command could not be started
ErrorLine(name) ==
    IF name \in {CloneCmd, PullCmd} THEN "Error with git"
    ELSE IF name = ForgeCmd THEN "Error extracting DataForge"
    ELSE "Error extracting localization"

\* the line logged when the command ran and returned a nonzero code
FailedLine(name) ==
    IF name \in {CloneCmd, PullCmd} THEN "Git command failed"
    ELSE IF name = ForgeCmd THEN "Warning: DataForge extraction returned code"
    ELSE "Warning: Localization extraction returned code"

AcquisitionCmds == {CloneCmd, PullCmd, ForgeCmd, LocalizationCmd}

\* C14: an acquisition command whose executable was not found is reported
\* with the "Error ..." line of its step and not with the line of a nonzero
\* return code, and the other way round; a nonzero return code is not raised:
\* the step returns False (df_success / loc_success are FALSE, the git step
\* ends the run through sys.exit(1)).
C14_NotFoundDistinctFromNonzero ==
    \A i \in 1 .. Len(cmds) :
        cmds[i].cmd \in AcquisitionCmds =>
            /\ cmds[i].outcome = NotFound =>
                  /\ Logged(ErrorLine(cmds[i].cmd))
                  /\ ~Logged(FailedLine(cmds[i].cmd))
            /\ cmds[i].outcome \in 1 .. MaxReturnCode =>
                  /\ Logged(FailedLine(cmds[i].cmd))
                  /\ ~Logged(ErrorLine(cmds[i].cmd))
                  /\ cmds[i].cmd = ForgeCmd => ~df_success
                  /\ cmds[i].cmd = LocalizationCmd => ~loc_success
                  /\ cmds[i].cmd \in {CloneCmd, PullCmd} =>
                        (pc = "done" /\ exit_status = 1)

C14_Witness ==
    /\ pc = "done"
    /\ Len(cmds) = 2
    /\ cmds[2] = Cmd(CloneCmd, NotFound)
    /\ Logged("Error with git")
    /\ ~Logged("Git command failed")

\* C15: the size string of every present file has the unit KB when the
\* file is smaller than 1 MiB and MB when it is 1 MiB or larger.
C15_UnitSwitchesAtOneMiB ==
    pc \in {"summary", "done"} =>
        \A f \in ExpectedFileSet :
            results[f].exists =>
                results[f].size_human.unit =
                    IF results[f].size < MiB THEN "KB" ELSE "MB"

\* C16: a call of verify_scunpacked_data leaves the filesystem as it was, and
\* a second call on the unchanged directory returns the report of the first.
C16_VerifyIdempotentReadOnly ==
    [][ /\ ( \/ (pc = "verify" /\ pc' = "summary")
             \/ (pc = "done" /\ pc' = "reverified") ) => fs' = fs
        /\ (pc = "done" /\ pc' = "reverified") => results' = results ]_vars

C16_Witness ==
    /\ pc = "reverified"
    /\ fs.scunpacked_dir
    /\ fs.files["items.json"] = MiB
    /\ fs.files["ships.json"] = Absent
    /\ results["items.json"].exists /\ ~results["ships.json"].exists

\* C17: no command is spawned twice in a run: the record extraction and the
\* localization export are each issued at most once whatever they return,
\* and a failed command is never followed by the same command again.
C17_NoRetry ==
    /\ Count(ForgeCmd) <= 1
    /\ Count(LocalizationCmd) <= 1
    /\ \A i, j \in 1 .. Len(cmds) : cmds[i].cmd = cmds[j].cmd => i = j
    /\ \A i \in 1 .. Len(cmds) :
         (cmds[i].outcome # 0 /\ i < Len(cmds)) =>
             cmds[i + 1].cmd \notin {cmds[i].cmd, CloneCmd, PullCmd}

C17_Witness ==
    /\ pc = "done"
    /\ Len(cmds) = 3
    /\ cmds[2] = Cmd(ForgeCmd, 2)
    /\ cmds[3] = Cmd(LocalizationCmd, 1)
    /\ exit_status = 1

GitCmds == {GitProbe, CloneCmd, PullCmd}
ScdtCmds == {ScdtProbe, ForgeCmd, LocalizationCmd}

\* C18: a scunpacked-data run spawns git commands only, a direct extraction
\* run spawns scdt commands only, on every path.
C18_ModesExclusive ==
    \A i \in 1 .. Len(cmds) :
        IF from_p4k THEN cmds[i].cmd \in ScdtCmds ELSE cmds[i].cmd \in GitCmds

C18_Witness ==
    /\ pc = "done" /\ from_p4k /\ exit_status = 1
    /\ Len(cmds) = 3
    /\ cmds[3].outcome # 0

\* C19: no step of a run up to and including a failed precondition (rejected
\* command line, missing Data.p4k, failed probe of git or of scdatatools)
\* changes the filesystem.
C19_PreconditionFailureKeepsFs ==
    [][ ( \/ pc = "main"
          \/ (pc = "check_scdatatools" /\ pc' = "done") ) => fs' = fs ]_vars

C19_Witness ==
    /\ pc = "done" /\ exit_status = 1
    /\ cmds = << Cmd(ScdtProbe, NotFound) >>
    /\ ~fs.output_dir /\ ~fs.dataforge_dir /\ ~fs.scunpacked_dir

====
